---- MODULE Spec2Model ----
(***************************************************************************)
(* Asynchronous control-flow primitives of packages/utilities:             *)
(*   betterSetInterval / betterClearInterval   (RepeatingTask)             *)
(*   timeoutPromise                            (PromiseGuard)              *)
(*   sequentializePromises                     (SequentialRunner)          *)
(* Each primitive is an independent state machine with its own             *)
(* specification (SpecRT, SpecTP / FairSpecTP, SpecSQ); the variables of   *)
(* the primitives a specification does not run stay at their idle value.   *)
(***************************************************************************)
EXTENDS Integers, Sequences, FiniteSets, TLC

\* ---- bounds of the model ------------------------------------------------
\* executions of the work function started per handle
MaxExec == 3
\* invocations of the continuation one execution of the work function makes
MaxCb == 2
\* length of the input of sequentializePromises
MaxItems == 3

VARIABLES
    \* betterSetInterval closure state
    isRunning,      \* let isRunning
    timeoutId,      \* let timeoutId (0 = undefined)
    timers,         \* timers of the event loop set by this handle and still pending
    timerSeq,       \* last timer id handed out by setTimeout
    started,        \* number of times func has been started
    cbCount,        \* cbCount[k]: times execution k has invoked its continuation
    cbLimit,        \* the work function: continuation invocations per execution
    rtpc,           \* "create" (inside betterSetInterval) | "returned" | "threw"
    threw,          \* threw[k]: execution k of the work function ended by throwing
    logged,         \* errors passed to log.exception by betterClearInterval
    thrown,         \* errors thrown by the cancel method of a handle passed in
    propagated,     \* an error has left betterClearInterval
    \* timeoutPromise closure state
    errorMessage,   \* the errorMessage argument as passed by the caller
    opState,        \* the wrapped promise: "pending" | "fulfilled" | "rejected"
    opValue,        \* its result or rejection reason
    job,            \* the reaction registered by promise.then: "none" | "queued" | "done"
    timerCleared,   \* clearTimeout(timeout) has been called
    timerFired,     \* the timer set by timeoutPromise has fired
    hasFulfilled,   \* let hasFulfilled
    outcome,        \* the promise returned by timeoutPromise
    settleCalls,    \* number of calls of resolve / reject made by callback
    opFirst,        \* the wrapped promise settled while the timer had not fired
    \* sequentializePromises
    items,          \* the argument: a sequence of "promise" | "factory"
    op,             \* op[i]: the operation of item i
    invoked,        \* invoked[i]: times the factory of item i was called
    pc,             \* "start" (not yet called) | "await" | "done"
    idx,            \* position of the item being awaited
    results,        \* const results
    settleOrder,    \* positions of the operations in the order they settled
    run,            \* the promise returned by sequentializePromises
    \* promisifyServerListen
    slpc,           \* "ready" (the function is returned, not called) | "called"
    registered,     \* handlers of this call registered on the server
    throwsOn,       \* the server: events for which removeListener throws
    slOutcome,      \* the promise returned by the call
    slSettleCalls,  \* number of calls of resolve / reject (executor throw included)
    events,         \* events the server has emitted since listen was called
    listenThrew,    \* an exception has left server.listen(port)
    rethrown,       \* an exception has left a handler into the emitter
    syncEmitted,    \* the server emitted an event inside listen(port)
    \* isForbiddenUsername
    candidate,      \* the username argument, a sequence of characters
    checked,        \* isForbiddenUsername(candidate) has returned
    verdict,        \* the value it returned
    \* cryptoRandomObjectId, deterministicUniqueId
    idpc,           \* "idle" | "ready"
    randLength,     \* the length argument of the last cryptoRandomObjectId call
    bytes,          \* the bytes crypto.randomBytes returned to it
    str,            \* the string it returned
    hashData,       \* data fed to the Hash object of the last deterministicUniqueId call
    detKey,         \* the key argument of that call
    detLength,      \* the length argument of that call
    detId,          \* the string it returned
    memo,           \* memo[k, l]: what the first call with (k, l) returned
    repeated        \* some (key, length) has been passed a second time

rtVars == <<isRunning, timeoutId, timers, timerSeq, started, cbCount, cbLimit,
            rtpc, threw, logged, thrown, propagated>>
tpVars == <<errorMessage, opState, opValue, job, timerCleared, timerFired,
            hasFulfilled, outcome, settleCalls, opFirst>>
sqVars == <<items, op, invoked, pc, idx, results, settleOrder, run>>
slVars == <<slpc, registered, throwsOn, slOutcome, slSettleCalls, events,
            listenThrew, rethrown, syncEmitted>>
unVars == <<candidate, checked, verdict>>
idVars == <<idpc, randLength, bytes, str, hashData, detKey, detLength, detId,
            memo, repeated>>
vars == <<rtVars, tpVars, sqVars, slVars, unVars, idVars>>

\* ---- JavaScript values ----------------------------------------------------
JSV(k, v) == [kind |-> k, val |-> v]
Undefined == JSV("undefined", "")
Null == JSV("null", "")
\* ToBoolean of a value
Truthy(v) ==
    /\ v.kind \notin {"undefined", "null"}
    /\ ~(v.kind = "number" /\ v.val = "0")
    /\ ~(v.kind = "string" /\ v.val = "")
\* new Error(message): an object, always truthy
NewError(m) == JSV("Error", m.val)
\* values a promise can be fulfilled or rejected with
Values == {Undefined, Null, JSV("number", "0"), JSV("number", "7"),
           JSV("string", ""), JSV("string", "x"), JSV("Error", "op failed")}
Pending == [state |-> "pending", value |-> Undefined]

\* the promise of an async function: fulfilled with a sequence of results, or
\* rejected with an error
RunPending == [state |-> "pending", value |-> <<>>, error |-> Undefined]

\* ---- idle values ----------------------------------------------------------
IdleRT ==
    /\ isRunning = FALSE /\ timeoutId = 0 /\ timers = {} /\ timerSeq = 0
    /\ started = 0 /\ cbCount = <<>> /\ cbLimit = 0
    /\ rtpc = "idle" /\ threw = <<>> /\ logged = {} /\ thrown = {}
    /\ propagated = FALSE
IdleTP ==
    /\ errorMessage = Undefined /\ opState = "idle" /\ opValue = Undefined
    /\ job = "none" /\ timerCleared = FALSE /\ timerFired = FALSE
    /\ hasFulfilled = FALSE /\ outcome = Pending /\ settleCalls = 0
    /\ opFirst = FALSE
IdleSQ ==
    /\ items = <<>> /\ op = <<>> /\ invoked = <<>> /\ pc = "idle" /\ idx = 0
    /\ results = <<>> /\ settleOrder = <<>> /\ run = RunPending
IdleSL ==
    /\ slpc = "idle" /\ registered = {} /\ throwsOn = {} /\ slOutcome = Pending
    /\ slSettleCalls = 0 /\ events = <<>> /\ listenThrew = FALSE
    /\ rethrown = FALSE /\ syncEmitted = FALSE
IdleUN ==
    /\ candidate = <<>> /\ checked = FALSE /\ verdict = FALSE
IdleID ==
    /\ idpc = "idle" /\ randLength = 0 /\ bytes = <<>> /\ str = <<>>
    /\ hashData = <<>> /\ detKey = <<>> /\ detLength = 0 /\ detId = <<>>
    /\ memo = <<>> /\ repeated = FALSE

(***************************************************************************)
(* RepeatingTask: betterSetInterval(func, delay)                           *)
(***************************************************************************)
\* funcWrapper: starts one execution of func, handing it the continuation
funcWrapper ==
    /\ started' = started + 1
    /\ cbCount' = Append(cbCount, 0)
    /\ threw' = Append(threw, FALSE)

\* callback: the continuation; sets the next timer while the handle is live
callbackNoFlag ==
    /\ timerSeq' = timerSeq + 1
    /\ timers' = timers \cup {timerSeq + 1}
    /\ timeoutId' = timerSeq + 1
callbackOnce ==
    IF isRunning /\ timerSeq = 0
    THEN /\ timerSeq' = timerSeq + 1
         /\ timers' = timers \cup {timerSeq + 1}
         /\ timeoutId' = timerSeq + 1
    ELSE UNCHANGED <<timerSeq, timers, timeoutId>>
callback ==
    IF isRunning
    THEN /\ timerSeq' = timerSeq + 1
         /\ timers' = timers \cup {timerSeq + 1}
         /\ timeoutId' = timerSeq + 1
    ELSE UNCHANGED <<timerSeq, timers, timeoutId>>

\* inside betterSetInterval(func, delay): the closure exists (isRunning is
\* true, no timer), funcWrapper() has not been called yet
InitRT ==
    /\ isRunning = TRUE
    /\ timeoutId = 0
    /\ timers = {}
    /\ timerSeq = 0
    /\ started = 0
    /\ cbCount = <<>>
    /\ cbLimit \in 1..MaxCb
    /\ rtpc = "create"
    /\ threw = <<>>
    /\ logged = {}
    /\ thrown = {}
    /\ propagated = FALSE
    /\ IdleTP /\ IdleSQ /\ IdleSL /\ IdleUN /\ IdleID

\* funcWrapper(); return { _betterClearInterval }
CreateDelayed ==
    /\ rtpc = "create"
    /\ callbackNoFlag
    /\ rtpc' = "returned"
    /\ UNCHANGED <<isRunning, started, cbCount, threw, cbLimit, logged, thrown,
                   propagated>>
Create ==
    /\ rtpc = "create"
    /\ funcWrapper
    /\ rtpc' = "returned"
    /\ UNCHANGED <<isRunning, timeoutId, timers, timerSeq, cbLimit, logged, thrown,
                   propagated>>

\* funcWrapper() where func throws, after n invocations of its continuation:
\* the exception leaves betterSetInterval and no handle is returned
CreateThrows(n) ==
    /\ rtpc = "create"
    /\ started' = 1
    /\ cbCount' = <<n>>
    /\ threw' = <<TRUE>>
    /\ IF n = 1 THEN callback ELSE UNCHANGED <<timerSeq, timers, timeoutId>>
    /\ rtpc' = "threw"
    /\ UNCHANGED <<isRunning, cbLimit, logged, thrown, propagated>>

\* execution k of the work function invokes the continuation it was given
InvokeCallback(k) ==
    /\ ~threw[k]
    /\ cbCount[k] < cbLimit
    /\ callback
    /\ cbCount' = [cbCount EXCEPT ![k] = @ + 1]
    /\ UNCHANGED <<isRunning, started, cbLimit, rtpc, threw, logged, thrown,
                   propagated>>

\* execution k, started by a timer, ends by throwing out of funcWrapper
Throws(k) ==
    /\ k >= 2
    /\ ~threw[k]
    /\ threw' = [threw EXCEPT ![k] = TRUE]
    /\ UNCHANGED <<isRunning, timeoutId, timers, timerSeq, started, cbCount,
                   cbLimit, rtpc, logged, thrown, propagated>>

\* a pending timer fires and runs funcWrapper
TimerFires(t) ==
    /\ started < MaxExec
    /\ timers' = timers \ {t}
    /\ funcWrapper
    /\ UNCHANGED <<isRunning, timeoutId, timerSeq, cbLimit, rtpc, logged, thrown,
                   propagated>>

\* _betterClearInterval of the handle betterSetInterval returned
Cancel ==
    /\ rtpc = "returned"
    /\ isRunning' = FALSE
    /\ timers' = timers \ {timeoutId}
    /\ UNCHANGED <<timeoutId, timerSeq, started, cbCount, cbLimit, rtpc, threw,
                   logged, thrown, propagated>>

\* what callers pass to betterClearInterval: nothing, an object without the
\* method, an object whose _betterClearInterval is not callable or throws,
\* the handle of this task
HandleKinds == {"undefined", "null", "noMethod", "notCallable", "throwing", "own"}
\* intervalID && intervalID._betterClearInterval
hasCancelMethod(h) == h \in {"notCallable", "throwing", "own"}
\* the exception intervalID._betterClearInterval() ends with
cancelError(h) ==
    IF h = "notCallable"
    THEN JSV("TypeError", "intervalID._betterClearInterval is not a function")
    ELSE JSV("Error", "cancel failed")

\* betterClearInterval(intervalID)
betterClearIntervalNoTry(h) ==
    IF ~hasCancelMethod(h)
    THEN UNCHANGED rtVars
    ELSE IF h = "own"
         THEN Cancel
         ELSE /\ thrown' = thrown \cup {cancelError(h)}
              /\ propagated' = TRUE
              /\ UNCHANGED <<isRunning, timeoutId, timers, timerSeq, started,
                             cbCount, cbLimit, rtpc, threw, logged>>
betterClearInterval(h) ==
    IF ~hasCancelMethod(h)
    THEN UNCHANGED rtVars
    ELSE IF h = "own"
         THEN Cancel
         ELSE /\ thrown' = thrown \cup {cancelError(h)}
              /\ logged' = logged \cup {cancelError(h)}
              /\ UNCHANGED <<isRunning, timeoutId, timers, timerSeq, started,
                             cbCount, cbLimit, rtpc, threw, propagated>>

NextRT ==
    \/ Create /\ UNCHANGED <<tpVars, sqVars, slVars, unVars, idVars>>
    \/ \E n \in 0..1 : CreateThrows(n) /\ UNCHANGED <<tpVars, sqVars, slVars, unVars, idVars>>
    \/ \E k \in 1..started : InvokeCallback(k) /\ UNCHANGED <<tpVars, sqVars, slVars, unVars, idVars>>
    \/ \E k \in 1..started : Throws(k) /\ UNCHANGED <<tpVars, sqVars, slVars, unVars, idVars>>
    \/ \E t \in timers : TimerFires(t) /\ UNCHANGED <<tpVars, sqVars, slVars, unVars, idVars>>
    \/ \E h \in HandleKinds : betterClearInterval(h) /\ UNCHANGED <<tpVars, sqVars, slVars, unVars, idVars>>

SpecRT == InitRT /\ [][NextRT]_vars

\* a work function that invokes its continuation at most once per execution;
\* the event loop runs the code that is ready to run: the first call of
\* funcWrapper, the work function up to its continuation, a due timer
InitRTOnce == InitRT /\ cbLimit = 1
FairSpecRT ==
    /\ InitRTOnce
    /\ [][NextRT]_vars
    /\ WF_vars(Create /\ UNCHANGED <<tpVars, sqVars, slVars, unVars, idVars>>)
    /\ WF_vars(\E k \in 1..started :
                  InvokeCallback(k) /\ UNCHANGED <<tpVars, sqVars, slVars, unVars, idVars>>)
    /\ WF_vars(\E t \in timers :
                  TimerFires(t) /\ UNCHANGED <<tpVars, sqVars, slVars, unVars, idVars>>)

\* C1: once cancel has been called on a handle, the work function of that
\* handle is never started again, and the liveness flag never returns to true.
C1_NoStartAfterCancel ==
    [][~isRunning => (started' = started /\ ~isRunning')]_vars

\* C2: execution k+1 never starts before the continuation of execution k has
\* been invoked; two executions of one handle never overlap.
C2_NoOverlap ==
    /\ \A k \in 1..(started - 1) : cbCount[k] >= 1
    /\ Cardinality({k \in 1..started : cbCount[k] = 0}) <= 1

\* C3: each handle has at most one pending timer, whatever the work function
\* does with its continuation.
C3_AtMostOneTimer == Cardinality(timers) <= 1

\* continuation invocations made so far by all executions
RECURSIVE SumSeq(_)
SumSeq(q) == IF q = <<>> THEN 0 ELSE Head(q) + SumSeq(Tail(q))
\* this step is one in which an execution invokes its continuation
ContinuationStep == SumSeq(cbCount') > SumSeq(cbCount)
\* this step starts an execution of the work function
StartStep == started' = started + 1

\* C14: cancel is idempotent: on a cancelled handle a further cancel changes
\* nothing and raises no error, and a cancel made while an execution is in
\* flight and no timer is pending leaves the handle Cancelled with no pending
\* timer, also after the continuation of that execution arrives.
C14_CancelIdempotent ==
    /\ [](~isRunning => timeoutId \notin timers)
    /\ [](~propagated)
    /\ [][(isRunning /\ ~isRunning' /\ timers = {}) => timers' = {}]_vars
    /\ [][(~isRunning /\ timers = {}) => (~isRunning' /\ timers' = {})]_vars
\* cancelled in flight: a continuation arrived after the cancel and set no timer
C14_Witness ==
    /\ rtpc = "returned" /\ ~isRunning /\ timers = {}
    /\ cbLimit = 1 /\ timerSeq < SumSeq(cbCount)

\* C15: betterClearInterval never propagates an error to its caller, for
\* every handle value, and an error thrown by the handle's cancel method is
\* reported to log.exception.
C15_ClearNeverThrows ==
    /\ ~propagated
    /\ thrown \subseteq logged
\* both a throwing and a non-callable cancel method have been passed
C15_Witness ==
    /\ Cardinality(thrown) = 2
    /\ rtpc = "returned" /\ isRunning

\* C16: the first execution of the work function is started inside
\* betterSetInterval, by the step that returns the handle, without a timer;
\* every later execution is started by a timer firing, and a timer is set
\* only when a continuation is invoked.
C16_FirstRunImmediate ==
    /\ [](rtpc = "returned" => started >= 1)
    /\ [][(StartStep /\ started = 0) => (rtpc = "create" /\ timers = {})]_vars
    /\ [][(StartStep /\ started >= 1)
            => \E t \in timers : timers' = timers \ {t}]_vars
    /\ [][~(timers' \subseteq timers) => ContinuationStep]_vars
\* a second execution has been started by a timer
C16_Witness == rtpc = "returned" /\ started = 2 /\ timerSeq = 1 /\ timers = {}

\* C17 (as stated): while the handle is Active, the next execution is
\* scheduled after every run, also after a run that throws.
C17_RescheduledAfterEveryRun ==
    \A k \in 1..started :
        (isRunning /\ threw[k]) => (started > k \/ timers # {})
\* C17 (amended): while the handle is Active, every invocation of the
\* continuation schedules the next execution, whatever the outcome of the run
\* (also when the run throws afterwards); timers are set by nothing else, so
\* a run that ends without invoking its continuation schedules nothing.
C17_RescheduledOnContinuation ==
    /\ [][(isRunning /\ ContinuationStep)
            => (timerSeq' = timerSeq + 1 /\ timers' = timers \cup {timerSeq'})]_vars
    /\ [](timerSeq <= SumSeq(cbCount))
    /\ [](\A k \in 1..started :
            (cbLimit = 1 /\ k = started /\ cbCount[k] = 0) => timers = {})
\* a run invoked its continuation, then threw, and the next run was started
C17_Witness ==
    \E k \in 1..started :
        /\ k >= 2 /\ threw[k] /\ cbCount[k] = 1 /\ started > k /\ isRunning
        /\ cbLimit = 1

(***************************************************************************)
(* PromiseGuard: timeoutPromise(promise, timeoutMillis, errorMessage)      *)
(***************************************************************************)
\* what callers pass as errorMessage: nothing, the empty string, a text
Messages == {Undefined, JSV("string", ""), JSV("string", "too slow")}

\* default parameter value: errorMessage = 'Promise has timed-out'
errorMessageOrFalsyDefault(m) ==
    IF Truthy(m) THEN m ELSE JSV("string", "Promise has timed-out")
errorMessageParam(m) ==
    IF m = Undefined THEN JSV("string", "Promise has timed-out") ELSE m

\* the timer set on the last line of the executor is pending
timeoutPending == ~timerFired /\ ~timerCleared

\* resolve(v) / reject(v) of the returned promise: only the first call settles
settle(s, v) ==
    /\ outcome' = IF outcome.state = "pending"
                  THEN [state |-> s, value |-> v] ELSE outcome
    /\ settleCalls' = settleCalls + 1

\* const callback = (err, result) => { ... }
timeoutCallbackNoClear(err, result) ==
    IF hasFulfilled
    THEN UNCHANGED <<timerCleared, hasFulfilled, outcome, settleCalls>>
    ELSE /\ UNCHANGED timerCleared
         /\ hasFulfilled' = TRUE
         /\ IF Truthy(err) THEN settle("rejected", err)
                           ELSE settle("fulfilled", result)
timeoutCallbackNoFlag(err, result) ==
    /\ timerCleared' = TRUE
    /\ hasFulfilled' = TRUE
    /\ IF Truthy(err) THEN settle("rejected", err) ELSE settle("fulfilled", result)
timeoutCallbackUndefinedTest(err, result) ==
    IF hasFulfilled
    THEN UNCHANGED <<timerCleared, hasFulfilled, outcome, settleCalls>>
    ELSE /\ timerCleared' = TRUE
         /\ hasFulfilled' = TRUE
         /\ IF err # Undefined THEN settle("rejected", err)
                               ELSE settle("fulfilled", result)
timeoutCallback(err, result) ==
    IF hasFulfilled
    THEN UNCHANGED <<timerCleared, hasFulfilled, outcome, settleCalls>>
    ELSE /\ timerCleared' = TRUE
         /\ hasFulfilled' = TRUE
         /\ IF Truthy(err) THEN settle("rejected", err)
                           ELSE settle("fulfilled", result)

\* state when timeoutPromise returns: reaction registered, timer set; the
\* wrapped promise is pending or was settled before the call
InitTP ==
    /\ errorMessage \in Messages
    /\ \/ opState = "pending" /\ opValue = Undefined /\ job = "none" /\ opFirst = FALSE
       \/ opState \in {"fulfilled", "rejected"} /\ opValue \in Values
          /\ job = "queued" /\ opFirst = TRUE
    /\ timerCleared = FALSE
    /\ timerFired = FALSE
    /\ hasFulfilled = FALSE
    /\ outcome = Pending
    /\ settleCalls = 0
    /\ IdleRT /\ IdleSQ /\ IdleSL /\ IdleUN /\ IdleID

\* the wrapped promise is fulfilled or rejected: its reaction job is queued
OpSettles(s, v) ==
    /\ opState = "pending"
    /\ opState' = s
    /\ opValue' = v
    /\ job' = "queued"
    /\ opFirst' = ~timerFired
    /\ UNCHANGED <<errorMessage, timerCleared, timerFired, hasFulfilled, outcome,
                   settleCalls, rtVars, sqVars, slVars, unVars, idVars>>

\* promise.then((result) => callback(null, result), callback)
RunReaction ==
    /\ job = "queued"
    /\ job' = "done"
    /\ IF opState = "fulfilled" THEN timeoutCallback(Null, opValue)
                                ELSE timeoutCallback(opValue, Undefined)
    /\ UNCHANGED <<errorMessage, opState, opValue, timerFired, opFirst, rtVars, sqVars, slVars, unVars, idVars>>

\* setTimeout(() => callback(new Error(errorMessage)), timeoutMillis); a timer
\* runs as a task of its own, after the queued promise jobs
TimeoutWaitsForOp ==
    /\ timeoutPending
    /\ job = "done"
    /\ timerFired' = TRUE
    /\ timeoutCallback(NewError(errorMessageParam(errorMessage)), Undefined)
    /\ UNCHANGED <<errorMessage, opState, opValue, job, opFirst, rtVars, sqVars, slVars, unVars, idVars>>
TimeoutFires ==
    /\ timeoutPending
    /\ job # "queued"
    /\ timerFired' = TRUE
    /\ timeoutCallback(NewError(errorMessageParam(errorMessage)), Undefined)
    /\ UNCHANGED <<errorMessage, opState, opValue, job, opFirst, rtVars, sqVars, slVars, unVars, idVars>>

NextTP ==
    \/ \E s \in {"fulfilled", "rejected"}, v \in Values : OpSettles(s, v)
    \/ RunReaction
    \/ TimeoutFires

SpecTP == InitTP /\ [][NextTP]_vars
\* the event loop runs every queued promise job and every due timer
FairSpecTP == SpecTP /\ WF_vars(RunReaction) /\ WF_vars(TimeoutFires)

isSettled == outcome.state # "pending"

\* C4: the promise returned by timeoutPromise settles at most once: resolve or
\* reject is called at most once and the outcome, once decided by the first of
\* the operation's settlement and the timer, never changes.
C4_SettlesOnce ==
    /\ [](settleCalls <= 1)
    /\ [][isSettled => outcome' = outcome]_vars
\* both the timer and the operation's settlement have arrived
C4_Witness == timerFired /\ job = "done" /\ settleCalls = 1

\* C5: if the wrapped operation rejects before the timer fires, the guarded
\* promise rejects with exactly the operation's rejection reason, for every
\* reason, falsy ones included.
C5_RejectionPropagates ==
    (opState = "rejected" /\ opFirst /\ job = "done")
        => outcome = [state |-> "rejected", value |-> opValue]

\* C6: if the wrapped operation resolves before the timer fires, the guarded
\* promise resolves with the operation's result, for every result value.
C6_ResultPropagates ==
    (opState = "fulfilled" /\ opFirst /\ job = "done")
        => outcome = [state |-> "fulfilled", value |-> opValue]
\* the operation won with a falsy result
C6_Witness ==
    /\ opState = "fulfilled" /\ opFirst /\ job = "done"
    /\ opValue = JSV("number", "0") /\ ~timerFired

\* C7: if the timer fires before the wrapped operation settles, the guarded
\* promise rejects with an Error whose message is the supplied message, or
\* 'Promise has timed-out' when none was supplied.
C7_TimeoutError ==
    (timerFired /\ ~opFirst)
        => outcome = [state |-> "rejected",
                      value |-> JSV("Error",
                                    IF errorMessage = Undefined
                                    THEN "Promise has timed-out"
                                    ELSE errorMessage.val)]
\* the timer won and the caller supplied the empty message
C7_Witness == timerFired /\ ~opFirst /\ errorMessage = JSV("string", "")

\* C8: the guarded promise is settled no later than the step in which the
\* timer fires, and it always eventually settles, also when the operation
\* never does.
C8_SettledByDeadline ==
    /\ [](timerFired => isSettled)
    /\ <>isSettled
\* the timer has fired while the operation is still pending
C8_Witness == timerFired /\ opState = "pending" /\ isSettled

\* what a caller can observe of a rejection without reading the message:
\* the type of the value (its constructor)
TypeOf(v) == v.kind

\* C19: the error a timeout rejects with is distinguishable by its type from
\* every value the wrapped operation can reject with.
C19_TimeoutDistinguishable ==
    (timerFired /\ ~opFirst /\ outcome.state = "rejected")
        => \A v \in Values : TypeOf(outcome.value) # TypeOf(v)

(***************************************************************************)
(* SequentialRunner: sequentializePromises(promises)                       *)
(***************************************************************************)
Kinds == {"promise", "factory"}
SQValues == {JSV("string", "a"), JSV("string", "b")}
SQErrors == {JSV("Error", "e1"), JSV("Error", "e2")}
Positions == 1..Len(items)
Settled(o) == o.state \in {"fulfilled", "rejected"}

\* the async function returns res / throws e
returnResults(res) ==
    /\ run' = [state |-> "fulfilled", value |-> res, error |-> Undefined]
    /\ pc' = "done"
throwEarliestFailure(e) ==
    LET failures == {k \in 1..Len(settleOrder) : op[settleOrder[k]].state = "rejected"}
        first == CHOOSE k \in failures : \A j \in failures : k <= j
    IN  /\ run' = [state |-> "rejected", value |-> <<>>,
                   error |-> IF failures = {} THEN e
                             ELSE op[settleOrder[first]].value]
        /\ pc' = "done"
throwPartialResults(e) ==
    /\ run' = [state |-> "fulfilled", value |-> results, error |-> Undefined]
    /\ pc' = "done"
throw(e) ==
    /\ run' = [state |-> "rejected", value |-> <<>>, error |-> e]
    /\ pc' = "done"

\* await promise: the function is suspended until the promise is settled
awaitNoWait(i) == TRUE
await(i) == Settled(op[i])

\* the loop from item i on, up to its next await: promiseOrFunc instanceof
\* Function ? promiseOrFunc() : promiseOrFunc; a factory returns a promise or
\* throws
iterate(i, res) ==
    /\ results' = res
    /\ idx' = i
    /\ IF i > Len(items)
       THEN returnResults(res) /\ UNCHANGED <<op, invoked>>
       ELSE IF items[i] = "factory"
            THEN /\ invoked' = [invoked EXCEPT ![i] = @ + 1]
                 /\ \/ /\ op' = [op EXCEPT ![i] = [state |-> "pending", value |-> Undefined]]
                       /\ pc' = "await"
                       /\ UNCHANGED run
                    \/ \E e \in SQErrors :
                          /\ op' = [op EXCEPT ![i] = [state |-> "rejected", value |-> e]]
                          /\ throw(e)
            ELSE /\ pc' = "await"
                 /\ UNCHANGED <<op, invoked, run>>

\* if (!promises.length) return []
returnEmptyDeferred ==
    /\ pc' = "await"
    /\ UNCHANGED <<op, invoked, idx, results, run>>
returnEmpty ==
    /\ returnResults(<<>>)
    /\ UNCHANGED <<op, invoked, idx, results>>

\* before the call: the caller holds the array; promise items are operations
\* already started, factory items have not been invoked
InitSQ ==
    /\ \E n \in 0..MaxItems : items \in [1..n -> Kinds]
    /\ op = [i \in DOMAIN items |->
                [state |-> IF items[i] = "promise" THEN "pending" ELSE "unstarted",
                 value |-> Undefined]]
    /\ invoked = [i \in DOMAIN items |-> 0]
    /\ pc = "start"
    /\ idx = 0
    /\ results = <<>>
    /\ settleOrder = <<>>
    /\ run = RunPending
    /\ IdleRT /\ IdleTP /\ IdleSL /\ IdleUN /\ IdleID

\* an operation in flight is fulfilled or rejected
SQSettles(i, s, v) ==
    /\ op[i].state = "pending"
    /\ op' = [op EXCEPT ![i] = [state |-> s, value |-> v]]
    /\ settleOrder' = Append(settleOrder, i)
    /\ UNCHANGED <<items, invoked, pc, idx, results, run, rtVars, tpVars, slVars, unVars, idVars>>

\* sequentializePromises(promises) up to its first await
Call ==
    /\ pc = "start"
    /\ IF Len(items) = 0
       THEN returnEmpty
       ELSE iterate(1, <<>>)
    /\ UNCHANGED <<items, settleOrder, rtVars, tpVars, slVars, unVars, idVars>>

\* the awaited promise is settled: results.push(await promise) and the next
\* iteration, or the rejection leaves the function
ResumeUnshift ==
    /\ pc = "await"
    /\ await(idx)
    /\ IF op[idx].state = "rejected"
       THEN throw(op[idx].value) /\ UNCHANGED <<op, invoked, idx, results>>
       ELSE iterate(idx + 1, <<op[idx].value>> \o results)
    /\ UNCHANGED <<items, settleOrder, rtVars, tpVars, slVars, unVars, idVars>>
Resume ==
    /\ pc = "await"
    /\ await(idx)
    /\ IF op[idx].state = "rejected"
       THEN throw(op[idx].value) /\ UNCHANGED <<op, invoked, idx, results>>
       ELSE iterate(idx + 1, Append(results, op[idx].value))
    /\ UNCHANGED <<items, settleOrder, rtVars, tpVars, slVars, unVars, idVars>>

NextSQ ==
    \/ \E i \in Positions, v \in SQValues : SQSettles(i, "fulfilled", v)
    \/ \E i \in Positions, e \in SQErrors : SQSettles(i, "rejected", e)
    \/ Call
    \/ Resume

SpecSQ == InitSQ /\ [][NextSQ]_vars

\* operations of the run in flight / factory-made operations in flight
InFlight == {i \in Positions : op[i].state = "pending"}
FactoryInFlight == {i \in InFlight : items[i] = "factory"}
\* the factory of item n has run only after every earlier item was observed
StartedInOrder ==
    \A n \in Positions :
        invoked[n] > 0 =>
            /\ Len(results) >= n - 1
            /\ \A m \in 1..(n - 1) : op[m].state = "fulfilled"

\* C9 (as stated): operation N+1 is not begun before the result or error of
\* operation N has been observed, and at most one operation of the run is in
\* flight at any time, for inputs of operations or factories.
C9_OneInFlight ==
    pc # "start" => (StartedInOrder /\ Cardinality(InFlight) <= 1)
\* C9 (amended): the factory of item N+1 is not invoked before the result of
\* item N has been observed, and at most one operation made by a factory of
\* the run is in flight at any time; items that are operations already
\* started are in flight independently of the run.
C9_FactoriesInOrder ==
    StartedInOrder /\ Cardinality(FactoryInFlight) <= 1
\* a factory after a fulfilled item has been invoked while a later
\* already-started operation is in flight
C9_Witness ==
    \E n \in Positions :
        /\ n >= 2 /\ items[n] = "factory" /\ invoked[n] = 1
        /\ op[n].state = "pending"
        /\ \E m \in Positions : m > n /\ op[m].state = "pending"

\* the run has rejected with the error of item n
FailsWith(n) ==
    /\ run.state = "rejected"
    /\ run.error = op[n].value
    /\ run.value = <<>>
    /\ \A m \in Positions : m > n => invoked[m] = 0

\* C10 (as stated): if the operation at position N fails, the run rejects
\* with exactly that error, no factory after N is invoked and no partial
\* results are delivered.
C10_FailsWithThatError ==
    \A n \in Positions : (pc = "done" /\ op[n].state = "rejected") => FailsWith(n)
\* C10 (amended): if the operation at position N fails and every operation
\* before N succeeds, the run rejects with exactly that error, no factory
\* after N is ever invoked and no partial results are delivered; a rejected
\* run is always of this form.
C10_FailsWithFirstError ==
    /\ \A n \in Positions :
          (/\ pc = "done"
           /\ op[n].state = "rejected"
           /\ \A m \in 1..(n - 1) : op[m].state = "fulfilled") => FailsWith(n)
    /\ \A n \in Positions :
          op[n].state = "rejected" => \A m \in Positions : m > n => invoked[m] = 0
    /\ run.state = "rejected" =>
          /\ idx \in Positions
          /\ FailsWith(idx)
          /\ \A m \in 1..(idx - 1) : op[m].state = "fulfilled"
    /\ run.state = "fulfilled" => \A n \in Positions : op[n].state = "fulfilled"
\* the second of three items failed after the first had delivered a result
C10_Witness ==
    /\ Len(items) = 3 /\ items[3] = "factory"
    /\ pc = "done" /\ idx = 2 /\ Len(results) = 1
    /\ op[2].state = "rejected" /\ run.state = "rejected"

\* C11: when every operation succeeds, the run resolves with a sequence of the
\* length of the input whose Nth element is the result of the Nth item, in
\* whatever order the operations settled, and each factory has been invoked
\* exactly once.
C11_ResultsInInputOrder ==
    /\ run.state = "fulfilled" =>
          /\ Len(run.value) = Len(items)
          /\ \A n \in Positions :
                /\ op[n].state = "fulfilled"
                /\ run.value[n] = op[n].value
                /\ invoked[n] = IF items[n] = "factory" THEN 1 ELSE 0
    /\ (pc = "done" /\ \A n \in Positions : op[n].state = "fulfilled")
          => run.state = "fulfilled"
\* three items with different results, the last one settled first
C11_Witness ==
    /\ run.state = "fulfilled" /\ Len(items) = 3
    /\ items[2] = "factory"
    /\ settleOrder = <<3, 1, 2>>
    /\ op[1].value # op[3].value

(***************************************************************************)
(* ReadinessPromise: promisifyServerListen(server)(port)                   *)
(***************************************************************************)
\* events emitted by the server after (or synchronously inside) listen(port)
MaxEvents == 3
SLErrors == {JSV("Error", "EADDRINUSE"), JSV("Error", "EACCES")}
Event(n, e) == [name |-> n, err |-> e]
EventSet == {Event("listening", Undefined)} \cup {Event("error", e) : e \in SLErrors}
\* the exception of a removeListener that fails
RemoveError == JSV("Error", "removeListener failed")

\* resolve / reject of a promise: only the first call settles it
settleP(p, s, v) == IF p.state = "pending" THEN [state |-> s, value |-> v] ELSE p

\* removeListeners: server.removeListener('error', onError), then
\* server.removeListener('listening', onListening); an exception of the
\* first call skips the second
removeListenersNoop(reg) == [reg |-> reg, threw |-> FALSE]
removeListenersErrorOnly(reg) == [reg |-> reg \ {"onError"}, threw |-> FALSE]
removeListeners(reg) ==
    IF "error" \in throwsOn
    THEN [reg |-> reg, threw |-> TRUE]
    ELSE IF "listening" \in throwsOn
         THEN [reg |-> reg \ {"onError"}, threw |-> TRUE]
         ELSE [reg |-> reg \ {"onError", "onListening"}, threw |-> FALSE]

\* the part of the state the handlers act on
SLState(reg, out, calls, re) ==
    [reg |-> reg, out |-> out, calls |-> calls, rethrown |-> re]

\* const onError = (err) => { removeListeners(); reject(err); }
onError(st, err) ==
    LET r == removeListeners(st.reg) IN
    IF r.threw
    THEN SLState(r.reg, st.out, st.calls, TRUE)
    ELSE SLState(r.reg, settleP(st.out, "rejected", err), st.calls + 1, st.rethrown)

\* const onListening = () => { removeListeners(); resolve(); }
onListening(st) ==
    LET r == removeListeners(st.reg) IN
    IF r.threw
    THEN SLState(r.reg, st.out, st.calls, TRUE)
    ELSE SLState(r.reg, settleP(st.out, "fulfilled", Undefined), st.calls + 1,
                 st.rethrown)

\* the server emits ev: the handler registered for it, if any, is called
emit(st, ev) ==
    IF ev.name = "error" /\ "onError" \in st.reg THEN onError(st, ev.err)
    ELSE IF ev.name = "listening" /\ "onListening" \in st.reg THEN onListening(st)
    ELSE st

\* promisifyServerListen(server) has returned the function (port) => ...
InitSLCommon ==
    /\ slpc = "ready"
    /\ registered = {}
    /\ slOutcome = Pending
    /\ slSettleCalls = 0
    /\ events = <<>>
    /\ listenThrew = FALSE
    /\ rethrown = FALSE
    /\ syncEmitted = FALSE
    /\ IdleRT /\ IdleTP /\ IdleSQ /\ IdleUN /\ IdleID
\* a server whose removeListener removes the handler and returns
InitSL == InitSLCommon /\ throwsOn = {}
\* a server whose removeListener throws for some event
InitSLFaulty == InitSLCommon /\ throwsOn \in (SUBSET {"error", "listening"}) \ {{}}

\* the handlers of the call the server holds when server.listen(port) is
\* invoked: server.on('error', onError) and server.on('listening',
\* onListening) come before it
handlersAtListenNone == {}
handlersAtListen == {"onError", "onListening"}

\* the executor: server.on('error', onError); server.on('listening',
\* onListening); server.listen(port), where listen returns
ListenReturns ==
    /\ slpc = "ready"
    /\ slpc' = "called"
    /\ registered' = {"onError", "onListening"}
    /\ UNCHANGED <<throwsOn, slOutcome, slSettleCalls, events, listenThrew, rethrown,
                   syncEmitted, rtVars, tpVars, sqVars, unVars, idVars>>

\* the handlers of the call the server holds after an exception has left
\* server.listen(port): nothing in the executor catches it, nothing removes
\* them
handlersAfterThrowRemoved == {}
handlersAfterThrow == handlersAtListen

\* the executor, where listen throws e: the promise is rejected with e
ListenThrows(e) ==
    /\ slpc = "ready"
    /\ slpc' = "called"
    /\ registered' = handlersAfterThrow
    /\ slOutcome' = settleP(slOutcome, "rejected", e)
    /\ slSettleCalls' = slSettleCalls + 1
    /\ listenThrew' = TRUE
    /\ UNCHANGED <<throwsOn, events, rethrown, syncEmitted, rtVars, tpVars, sqVars,
                   unVars, idVars>>

\* the executor, where listen emits ev before it returns; an exception of the
\* handler leaves emit and listen, and rejects the promise
ListenEmits(ev) ==
    /\ slpc = "ready"
    /\ slpc' = "called"
    /\ events' = <<ev>>
    /\ syncEmitted' = TRUE
    /\ LET st == emit(SLState(handlersAtListen, slOutcome,
                              slSettleCalls, rethrown), ev) IN
       /\ registered' = st.reg
       /\ rethrown' = st.rethrown
       /\ IF st.rethrown
          THEN /\ slOutcome' = settleP(st.out, "rejected", RemoveError)
               /\ slSettleCalls' = st.calls + 1
               /\ listenThrew' = TRUE
          ELSE /\ slOutcome' = st.out
               /\ slSettleCalls' = st.calls
               /\ listenThrew' = FALSE
    /\ UNCHANGED <<throwsOn, rtVars, tpVars, sqVars, unVars, idVars>>

\* the server emits ev later, from the event loop
Emit(ev) ==
    /\ slpc = "called"
    /\ Len(events) < MaxEvents
    /\ events' = Append(events, ev)
    /\ LET st == emit(SLState(registered, slOutcome, slSettleCalls, rethrown), ev) IN
       /\ registered' = st.reg
       /\ slOutcome' = st.out
       /\ slSettleCalls' = st.calls
       /\ rethrown' = st.rethrown
    /\ UNCHANGED <<slpc, throwsOn, listenThrew, syncEmitted, rtVars, tpVars, sqVars,
                   unVars, idVars>>

NextSL ==
    \/ ListenReturns
    \/ \E e \in SLErrors : ListenThrows(e)
    \/ \E ev \in EventSet : ListenEmits(ev)
    \/ \E ev \in EventSet : Emit(ev)

SpecSL == InitSL /\ [][NextSL]_vars
SpecSLFaulty == InitSLFaulty /\ [][NextSL]_vars

\* what the first event emitted settles the awaitable with
FirstEventOutcome ==
    IF events[1].name = "error"
    THEN [state |-> "rejected", value |-> events[1].err]
    ELSE [state |-> "fulfilled", value |-> Undefined]

\* C12: the awaitable settles once: whichever of the 'error' and 'listening'
\* events fires first decides it (reject with the emitted error, or resolve)
\* with a single call of reject / resolve, and no later event changes it;
\* once the awaitable is settled, by an event or by listen throwing, it never
\* changes.
C12_FirstEventDecides ==
    /\ [][slOutcome.state # "pending" => slOutcome' = slOutcome]_vars
    /\ []((events # <<>> /\ ~listenThrew)
            => (slOutcome = FirstEventOutcome /\ slSettleCalls = 1))
    /\ []((events = <<>> /\ ~listenThrew) => slOutcome.state = "pending")
\* 'listening' fired first, an 'error' followed
C12_Witness ==
    /\ Len(events) = 2 /\ events[1].name = "listening" /\ events[2].name = "error"
    /\ slOutcome.state = "fulfilled"

\* C13: once the first 'listening' or 'error' event has been handled, and so
\* whenever the awaitable has settled through an event, neither handler of
\* the call is registered on the server; until then both are.
C13_HandlersRemoved ==
    /\ events # <<>> => registered = {}
    /\ (slpc = "called" /\ events = <<>>) => registered = {"onError", "onListening"}
\* settled through an 'error' event
C13_Witness ==
    /\ Len(events) = 1 /\ events[1].name = "error" /\ ~listenThrew
    /\ slOutcome.state = "rejected" /\ registered = {}

\* C18: when removeListener throws while an event is handled, the exception
\* is caught inside the handler, not rethrown to the emitter, and the
\* awaitable still settles with the outcome of that event.
C18_CleanupFailureContained ==
    /\ ~rethrown
    /\ (events # <<>> /\ ~listenThrew) => slOutcome = FirstEventOutcome

(***************************************************************************)
(* UsernamePolicy: FORBIDDEN_REGEXP, isForbiddenUsername(username)         *)
(***************************************************************************)
\* length of the candidates
MaxUserLen == 4
\* U+212A KELVIN SIGN: a letter outside ASCII whose lower case is ASCII "k"
KelvinSign == "U+212A"
\* characters of the candidates: letters of both cases, a digit, the three
\* separators, a line terminator and a letter outside ASCII
Alphabet == {"m", "M", "x", "0", "_", ".", "-", "\n", KelvinSign}
ShortCandidates == UNION {[1..n -> Alphabet] : n \in 0..MaxUserLen}
\* export const ANONYMOUS_USERNAME = 'anonymous'
ANONYMOUS_USERNAME == <<"a", "n", "o", "n", "y", "m", "o", "u", "s">>
\* candidates named by the documentation of the policy
NamedCandidates ==
    { ANONYMOUS_USERNAME,
      <<"A", "D", "M", "I", "N">>,
      <<"m", "y", "-", "c", "o", "o", "l", "-", "s", "c", "r", "a", "p", "e", "r">> }
Candidates == ShortCandidates \cup NamedCandidates
LineTerminators == {"\n"}

\* the ASCII letters that occur, in both cases
LowerLetters == <<"a", "c", "d", "e", "i", "k", "l", "m", "n", "o", "p", "r",
                  "s", "u", "x", "y">>
UpperLetters == <<"A", "C", "D", "E", "I", "K", "L", "M", "N", "O", "P", "R",
                  "S", "U", "X", "Y">>
Digits == {"0"}
IsAscii(c) == c # KelvinSign
Chars ==
    Alphabet \cup Digits \cup {LowerLetters[i] : i \in 1..Len(LowerLetters)}
             \cup {UpperLetters[i] : i \in 1..Len(UpperLetters)}
\* String.prototype.toUpperCase / toLowerCase of one character
UpperCaseOf ==
    [c \in Chars |->
        IF \E i \in 1..Len(LowerLetters) : LowerLetters[i] = c
        THEN UpperLetters[CHOOSE i \in 1..Len(LowerLetters) : LowerLetters[i] = c]
        ELSE c]
LowerCaseOf ==
    [c \in Chars |->
        IF c = KelvinSign THEN "k"
        ELSE IF \E i \in 1..Len(UpperLetters) : UpperLetters[i] = c
             THEN LowerLetters[CHOOSE i \in 1..Len(UpperLetters) : UpperLetters[i] = c]
             ELSE c]
ToUpperCase(c) == UpperCaseOf[c]
ToLowerCase(c) == LowerCaseOf[c]
\* Canonicalize of the RegExp semantics under the flag 'i' without the flag
\* 'u': the upper case of the character, unless that maps a character outside
\* ASCII into ASCII
CanonicalizeCaseSensitive(c) == c
Canonicalize(c) ==
    LET cu == ToUpperCase(c)
    IN  IF ~IsAscii(c) /\ IsAscii(cu) THEN c ELSE cu
\* the members of the class [0-9a-z]
ClassAlnum == Digits \cup {LowerLetters[i] : i \in 1..Len(LowerLetters)}
\* a character is in the class when a member has its canonical form
CanonicalAlnum == {Canonicalize(a) : a \in ClassAlnum}
IsAlnum(c) == Canonicalize(c) \in CanonicalAlnum
IsSeparator(c) == c \in {"_", ".", "-"}

\* a regular expression is a sequence of atoms: a character class, once or
\* repeated (*), or an assertion (^, $)
Atom(cls, ch, q) == [cls |-> cls, ch |-> ch, q |-> q]
Lit(c) == Atom("lit", c, "1")
LitSeq(chars) == [i \in 1..Len(chars) |-> Lit(chars[i])]
DotStar == Atom("dot", "", "*")
NotAlnum == Atom("notAlnum", "", "1")
Sep == Atom("sep", "", "1")
Bol == Atom("bol", "", "0")
Eol == Atom("eol", "", "0")

\* one character against a class, under the flag 'i' and without the flag 's'
ClassMatches(a, c) ==
    CASE a.cls = "lit" -> Canonicalize(c) = Canonicalize(a.ch)
      [] a.cls = "dot" -> c \notin LineTerminators
      [] a.cls = "notAlnum" -> ~IsAlnum(c)
      [] a.cls = "sep" -> IsSeparator(c)

\* an assertion at position j of s, without the flag 'm'
AssertionHolds(a, s, j) ==
    CASE a.cls = "bol" -> j = 1
      [] a.cls = "eol" -> j = Len(s) + 1

\* the atoms of pat from i on match s from position j (backtracking)
RECURSIVE MatchFrom(_, _, _, _)
MatchFrom(pat, i, s, j) ==
    IF i > Len(pat)
    THEN TRUE
    ELSE IF pat[i].q = "0"
         THEN AssertionHolds(pat[i], s, j) /\ MatchFrom(pat, i + 1, s, j)
         ELSE IF pat[i].q = "1"
              THEN /\ j <= Len(s)
                   /\ ClassMatches(pat[i], s[j])
                   /\ MatchFrom(pat, i + 1, s, j + 1)
              ELSE \/ MatchFrom(pat, i + 1, s, j)
                   \/ /\ j <= Len(s)
                      /\ ClassMatches(pat[i], s[j])
                      /\ MatchFrom(pat, i, s, j + 1)

\* the entries of FORBIDDEN_USERNAMES_REGEXPS that a candidate, or a candidate
\* with letters changed in case, can match: every other entry holds a literal
\* character that no such string has at that place
FORBIDDEN_USERNAMES_REGEXPS_WithEmpty ==
    { <<DotStar>> }
FORBIDDEN_USERNAMES_REGEXPS ==
    { LitSeq(<<"0">>), LitSeq(<<"m">>), LitSeq(<<"m", "x">>),
      LitSeq(<<"x", "x", "x">>), LitSeq(<<"a", "d", "m", "i", "n">>),
      \* '(\\..*)'
      <<Lit("."), DotStar>>,
      \* '(xxx-.*)'
      <<Lit("x"), Lit("x"), Lit("x"), Lit("-"), DotStar>>,
      \* '([^0-9a-z].*)'
      <<NotAlnum, DotStar>>,
      \* '(.*[^0-9a-z])'
      <<DotStar, NotAlnum>>,
      \* '(.*[_.\\-]{2}.*)'
      <<DotStar, Sep, Sep, DotStar>> }

\* the alternatives of the expression: ANONYMOUS_USERNAME and the entries
Alternatives == {LitSeq(ANONYMOUS_USERNAME)} \cup FORBIDDEN_USERNAMES_REGEXPS

\* new RegExp(`^(${ANONYMOUS_USERNAME}|${...join('|')})$`, 'i'), as the set of
\* the sequences of atoms it accepts: ^, one alternative of the group, $
FORBIDDEN_REGEXP_Unanchored == Alternatives
FORBIDDEN_REGEXP == {<<Bol>> \o alt \o <<Eol>> : alt \in Alternatives}

\* String.prototype.match finds a match: the expression matches s from some
\* index on
MatchesForbiddenRegexp(s) ==
    \E start \in 1..(Len(s) + 1) :
        \E pat \in FORBIDDEN_REGEXP : MatchFrom(pat, 1, s, start)

\* username.match(FORBIDDEN_REGEXP): the match array, or null
usernameMatch(s) ==
    IF MatchesForbiddenRegexp(s) THEN JSV("array", "match") ELSE Null

\* return !!username.match(FORBIDDEN_REGEXP)
isForbiddenUsername(s) == Truthy(usernameMatch(s))

InitUN ==
    /\ candidate \in Candidates
    /\ checked = FALSE
    /\ verdict = FALSE
    /\ IdleRT /\ IdleTP /\ IdleSQ /\ IdleSL /\ IdleID

CheckUsername ==
    /\ ~checked
    /\ checked' = TRUE
    /\ verdict' = isForbiddenUsername(candidate)
    /\ UNCHANGED <<candidate, rtVars, tpVars, sqVars, slVars, idVars>>

NextUN == CheckUsername

SpecUN == InitUN /\ [][NextUN]_vars

\* the structural rules a candidate can break
BadStart(s) == ~IsAlnum(s[1])
BadEnd(s) == ~IsAlnum(s[Len(s)])
RepeatedSeparator(s) ==
    \E i \in 1..(Len(s) - 1) : IsSeparator(s[i]) /\ IsSeparator(s[i + 1])

\* C20: isForbiddenUsername returns true for every non-empty candidate that
\* does not start with a letter or digit, or does not end with one, or
\* contains two consecutive separator characters.
C20_StructuralRulesForbidden ==
    (/\ checked
     /\ candidate # <<>>
     /\ (BadStart(candidate) \/ BadEnd(candidate) \/ RepeatedSeparator(candidate)))
        => verdict = TRUE

\* the whole of s, from its first to its last character, matches pat
EntireMatch(pat, s) == MatchFrom(pat \o <<Eol>>, 1, s, 1)
\* some proper part of s (a prefix, a suffix or an inner part) matches pat
PartMatch(pat, s) ==
    \E a \in 1..Len(s) : \E b \in a..Len(s) :
        /\ b - a + 1 < Len(s)
        /\ EntireMatch(pat, SubSeq(s, a, b))
MyCoolScraper ==
    <<"m", "y", "-", "c", "o", "o", "l", "-", "s", "c", "r", "a", "p", "e", "r">>

\* C21: isForbiddenUsername(c) is true if and only if the entire string c
\* matches the anonymous sentinel or an entry of the forbidden-pattern list; a
\* match of a part of c does not count ('my-cool-scraper' is not forbidden),
\* and the sentinel 'anonymous' is forbidden.
C21_AnchoredAlternation ==
    checked =>
        /\ verdict = (\E alt \in Alternatives : EntireMatch(alt, candidate))
        /\ candidate = MyCoolScraper => verdict = FALSE
        /\ candidate = ANONYMOUS_USERNAME => verdict = TRUE
\* a structurally legal candidate that holds reserved words as parts ('0' and
\* 'm' in '0m') and is not forbidden
C21_Witness ==
    /\ checked /\ verdict = FALSE
    /\ candidate = <<"0", "m">>
    /\ \E alt \in FORBIDDEN_USERNAMES_REGEXPS : PartMatch(alt, candidate)
    /\ ~BadStart(candidate) /\ ~BadEnd(candidate) /\ ~RepeatedSeparator(candidate)

\* the case forms of one character, and of its ASCII letters only
CaseForms(c) == {c, ToUpperCase(c), ToLowerCase(c)}
AsciiCaseForms(c) == IF IsAscii(c) THEN CaseForms(c) ELSE {c}
\* the strings got from s by changing letters between upper and lower case
RECURSIVE CaseVariants(_)
CaseVariants(s) ==
    IF s = <<>> THEN {<<>>}
    ELSE {<<c>> \o t : c \in CaseForms(Head(s)), t \in CaseVariants(Tail(s))}
RECURSIVE AsciiCaseVariants(_)
AsciiCaseVariants(s) ==
    IF s = <<>> THEN {<<>>}
    ELSE {<<c>> \o t : c \in AsciiCaseForms(Head(s)),
                       t \in AsciiCaseVariants(Tail(s))}

\* C22: the verdict is case-insensitive: isForbiddenUsername(c) equals
\* isForbiddenUsername of c with any of its letters changed between upper and
\* lower case.
C22_CaseInsensitive ==
    checked => \A v \in CaseVariants(candidate) : isForbiddenUsername(v) = verdict
\* C22 (amended): the verdict is case-insensitive for the ASCII letters:
\* isForbiddenUsername(c) equals isForbiddenUsername of c with any of its
\* letters a-z, A-Z changed in case ('ADMIN' is forbidden as 'admin' is).
C22_AsciiCaseInsensitive ==
    checked =>
        /\ \A v \in AsciiCaseVariants(candidate) : isForbiddenUsername(v) = verdict
        /\ candidate = <<"A", "D", "M", "I", "N">> => verdict = TRUE
\* 'ADMIN' was checked and is forbidden, as 'admin' is
C22_Witness ==
    /\ checked /\ verdict = TRUE
    /\ candidate = <<"A", "D", "M", "I", "N">>
    /\ <<"a", "d", "m", "i", "n">> \in AsciiCaseVariants(candidate)
    /\ isForbiddenUsername(<<"a", "d", "m", "i", "n">>)

\* C23: isForbiddenUsername('') is false: no entry of the list matches the
\* empty string; and for every string the function returns a boolean (the call
\* completes, nothing is thrown).
C23_EmptyNotForbidden ==
    /\ checked => verdict \in BOOLEAN
    /\ (checked /\ candidate = <<>>) => verdict = FALSE
    /\ \A alt \in Alternatives : ~EntireMatch(alt, <<>>)
    /\ ~checked => ENABLED CheckUsername
\* the empty candidate was checked
C23_Witness == checked /\ candidate = <<>> /\ verdict = FALSE

(***************************************************************************)
(* IdentityGenerator: cryptoRandomObjectId(length),                        *)
(* deterministicUniqueId(key, length)                                      *)
(***************************************************************************)
\* length of the random identifiers
MaxIdLen == 2
\* values of the bytes crypto.randomBytes returns
Bytes == {0, 61, 62, 255}
\* keys and lengths passed to deterministicUniqueId
Keys == {<<"0">>, <<"a", "b">>}
Lengths == {2, 17, 45}

\* const chars = 'abc...'
chars ==
    <<"a", "b", "c", "d", "e", "f", "g", "h", "i", "j", "k", "l", "m",
    "n", "o", "p", "q", "r", "s", "t", "u", "v", "w", "x", "y", "z", "A",
    "B", "C", "E", "D", "F", "G", "H", "I", "J", "K", "L", "M", "N", "O",
    "P", "Q", "R", "S", "T", "U", "V", "W", "X", "Y", "Z", "0", "1", "2",
    "3", "4", "5", "6", "7", "8", "9">>
\* chars[i] of a string: the character, or undefined past its end; str +=
\* undefined appends the text 'undefined'
charsAt(i) ==
    IF i < Len(chars) THEN <<chars[i + 1]>>
    ELSE <<"u", "n", "d", "e", "f", "i", "n", "e", "d">>
\* bytes[i] | 0: ToInt32 of a byte
ToInt32(b) == b
\* chars[(bytes[i] | 0) % chars.length]
pickNoModulo(b) == charsAt(ToInt32(b))
pick(b) == charsAt(ToInt32(b) % Len(chars))
\* for (let i = bytes.length - 1; i >= 0; i--) str += chars[...]
RECURSIVE buildStr(_, _)
buildStr(bs, i) ==
    IF i < 1 THEN <<>> ELSE pick(bs[i]) \o buildStr(bs, i - 1)
\* cryptoRandomObjectId, given the bytes crypto.randomBytes(length) returns
cryptoRandomObjectId(bs) == buildStr(bs, Len(bs))

\* crypto.createHash('sha256'): a new Hash object, no data
createHashReused == hashData
createHash == <<>>
\* hash.update(key)
update(h, key) == h \o key
\* hash.digest('base64') of SHA-256, for the data the calls can feed
digestBase64(data) ==
    CASE data = <<>> ->
          <<"4", "7", "D", "E", "Q", "p", "j", "8", "H", "B", "S", "a",
          "+", "/", "T", "I", "m", "W", "+", "5", "J", "C", "e", "u",
          "Q", "e", "R", "k", "m", "5", "N", "M", "p", "J", "W", "Z",
          "G", "3", "h", "S", "u", "F", "U", "=">>
      [] data = <<"0">> ->
          <<"X", "+", "z", "r", "Z", "v", "/", "I", "b", "z", "j", "Z",
          "U", "n", "h", "s", "b", "W", "l", "s", "e", "c", "L", "b",
          "w", "j", "n", "d", "T", "p", "G", "0", "Z", "y", "n", "X",
          "O", "i", "f", "7", "V", "+", "k", "=">>
      [] data = <<"a", "b">> ->
          <<"+", "4", "4", "g", "/", "C", "5", "M", "P", "y", "S", "M",
          "Y", "M", "O", "b", "1", "l", "L", "z", "w", "T", "R", "y",
          "m", "L", "u", "X", "e", "4", "t", "N", "W", "Q", "O", "4",
          "U", "F", "V", "i", "B", "g", "M", "=">>
      [] data = <<"0", "0">> ->
          <<"8", "V", "N", "D", "k", "i", "e", "b", "3", "b", "+", "d",
          "Q", "9", "3", "o", "c", "B", "y", "1", "v", "h", "S", "4",
          "L", "3", "b", "s", "Z", "g", "e", "/", "j", "W", "r", "V",
          "V", "/", "Y", "P", "M", "E", "4", "=">>
      [] data = <<"0", "a", "b">> ->
          <<"V", "S", "p", "G", "+", "O", "U", "4", "J", "j", "5", "Q",
          "K", "s", "d", "I", "A", "G", "h", "T", "R", "y", "J", "W",
          "c", "j", "w", "2", "h", "g", "Q", "U", "q", "T", "+", "j",
          "o", "0", "B", "r", "5", "L", "8", "=">>
      [] data = <<"a", "b", "0">> ->
          <<"S", "Y", "h", "n", "o", "l", "C", "j", "Q", "0", "e", "d",
          "3", "b", "Q", "t", "X", "o", "b", "8", "s", "k", "P", "Q",
          "N", "x", "Y", "t", "E", "N", "M", "e", "J", "m", "y", "l",
          "0", "1", "J", "Q", "F", "e", "4", "=">>
      [] data = <<"a", "b", "a", "b">> ->
          <<"p", "m", "c", "o", "J", "n", "X", "0", "h", "2", "A", "h",
          "0", "5", "K", "q", "Z", "Z", "L", "z", "n", "a", "v", "3",
          "G", "H", "S", "M", "S", "3", "O", "F", "Y", "8", "u", "d",
          "X", "c", "j", "y", "H", "y", "Q", "=">>
      [] data = <<"0", "0", "0">> ->
          <<"K", "s", "m", "m", "d", "G", "r", "K", "V", "D", "r", "4",
          "3", "/", "O", "Y", "l", "M", "/", "o", "F", "z", "r", "7",
          "o", "h", "6", "w", "H", "G", "+", "u", "M", "9", "U", "p",
          "R", "y", "I", "o", "V", "e", "8", "=">>
      [] data = <<"0", "0", "a", "b">> ->
          <<"N", "q", "7", "Y", "+", "5", "5", "M", "6", "n", "L", "9",
          "V", "0", "b", "6", "3", "N", "m", "5", "x", "a", "q", "T",
          "s", "R", "s", "n", "/", "4", "5", "e", "h", "y", "Y", "g",
          "q", "O", "R", "z", "B", "U", "Y", "=">>
      [] data = <<"0", "a", "b", "0">> ->
          <<"o", "I", "A", "z", "P", "2", "4", "1", "I", "G", "C", "F",
          "q", "J", "h", "6", "O", "e", "M", "T", "7", "s", "n", "0",
          "s", "r", "3", "P", "o", "p", "f", "u", "E", "P", "y", "b",
          "m", "1", "+", "i", "r", "r", "Y", "=">>
      [] data = <<"0", "a", "b", "a", "b">> ->
          <<"9", "Y", "U", "N", "z", "+", "Y", "A", "K", "3", "3", "g",
          "k", "e", "X", "k", "E", "p", "E", "0", "q", "Y", "i", "s",
          "X", "c", "t", "X", "e", "Q", "w", "2", "3", "n", "z", "T",
          "8", "X", "L", "U", "T", "a", "o", "=">>
      [] data = <<"a", "b", "0", "0">> ->
          <<"C", "5", "j", "P", "B", "O", "r", "n", "F", "2", "E", "2",
          "v", "7", "A", "p", "a", "X", "v", "b", "2", "/", "5", "v",
          "o", "S", "2", "X", "A", "2", "w", "8", "Q", "z", "b", "4",
          "m", "V", "9", "y", "/", "R", "w", "=">>
      [] data = <<"a", "b", "0", "a", "b">> ->
          <<"I", "h", "h", "g", "r", "U", "r", "4", "g", "L", "w", "M",
          "N", "F", "Z", "f", "N", "C", "P", "Q", "T", "2", "n", "+",
          "v", "M", "a", "H", "I", "k", "B", "H", "6", "D", "a", "w",
          "X", "+", "1", "t", "Y", "/", "Y", "=">>
      [] data = <<"a", "b", "a", "b", "0">> ->
          <<"+", "x", "T", "J", "g", "q", "1", "1", "T", "l", "s", "v",
          "Y", "+", "X", "r", "Q", "a", "D", "9", "x", "t", "Q", "Q",
          "f", "q", "F", "+", "A", "p", "A", "m", "Z", "P", "i", "O",
          "l", "F", "3", "7", "a", "f", "w", "=">>
      [] data = <<"a", "b", "a", "b", "a", "b">> ->
          <<"N", "v", "8", "S", "D", "5", "j", "R", "y", "o", "X", "e",
          "K", "Z", "9", "l", "M", "U", "s", "7", "l", "o", "0", "T",
          "L", "O", "5", "p", "+", "P", "i", "7", "a", "m", "1", "O",
          "E", "F", "g", "x", "M", "1", "U", "=">>
\* .replace(/(\+|\/|=)/g, 'x')
replaceFiller(t) ==
    [i \in 1..Len(t) |-> IF t[i] \in {"+", "/", "="} THEN "x" ELSE t[i]]
\* .substr(0, length)
substr(t, length) ==
    SubSeq(t, 1, IF length < Len(t) THEN length ELSE Len(t))
\* the steps of deterministicUniqueId from the Hash object h on
deterministicUniqueIdFrom(h, length) ==
    substr(replaceFiller(digestBase64(h)), length)

InitID ==
    /\ idpc = "ready"
    /\ randLength = 0 /\ bytes = <<>> /\ str = <<>>
    /\ hashData = <<>> /\ detKey = <<>> /\ detLength = 0 /\ detId = <<>>
    /\ memo = [kl \in Keys \X Lengths |-> <<>>]
    /\ repeated = FALSE
    /\ IdleRT /\ IdleTP /\ IdleSQ /\ IdleSL /\ IdleUN

\* a call of cryptoRandomObjectId(length); randomBytes returns bs
RandomCall(length, bs) ==
    /\ idpc = "ready"
    /\ Len(bs) = length
    /\ randLength' = length
    /\ bytes' = bs
    /\ str' = cryptoRandomObjectId(bs)
    /\ UNCHANGED <<idpc, hashData, detKey, detLength, detId, memo, repeated>>
    /\ UNCHANGED <<rtVars, tpVars, sqVars, slVars, unVars>>

\* a call of deterministicUniqueId(key, length)
DeterministicCall(key, length) ==
    /\ idpc = "ready"
    /\ LET h == update(createHash, key)
           id == deterministicUniqueIdFrom(h, length)
       IN  /\ hashData' = h
           /\ detKey' = key
           /\ detLength' = length
           /\ detId' = id
           /\ memo' = IF memo[<<key, length>>] = <<>>
                      THEN [memo EXCEPT ![<<key, length>>] = id]
                      ELSE memo
           /\ repeated' = (repeated \/ memo[<<key, length>>] # <<>>)
    /\ UNCHANGED <<idpc, randLength, bytes, str>>
    /\ UNCHANGED <<rtVars, tpVars, sqVars, slVars, unVars>>

NextID ==
    \/ \E length \in 1..MaxIdLen : \E bs \in [1..length -> Bytes] :
          RandomCall(length, bs)
    \/ \E key \in Keys : \E length \in Lengths : DeterministicCall(key, length)

SpecID == InitID /\ [][NextID]_vars

\* the 62 alphanumeric characters
Alphanumerics ==
    { "a", "b", "c", "d", "e", "f", "g", "h", "i", "j", "k", "l", "m", "n", "o",
      "p", "q", "r", "s", "t", "u", "v", "w", "x", "y", "z",
      "A", "B", "C", "D", "E", "F", "G", "H", "I", "J", "K", "L", "M", "N", "O",
      "P", "Q", "R", "S", "T", "U", "V", "W", "X", "Y", "Z",
      "0", "1", "2", "3", "4", "5", "6", "7", "8", "9" }

\* C24: for every length L >= 1 and every sequence of L random bytes,
\* cryptoRandomObjectId(L) returns a string of exactly L characters, each from
\* an alphabet of 62 distinct alphanumeric characters.
C24_RandomIdShape ==
    /\ Cardinality({chars[i] : i \in 1..Len(chars)}) = 62
    /\ {chars[i] : i \in 1..Len(chars)} = Alphanumerics
    /\ randLength >= 1 =>
          /\ Len(str) = randLength
          /\ \A i \in 1..Len(str) : str[i] \in Alphanumerics
\* an identifier made from a byte past the end of the alphabet
C24_Witness ==
    /\ randLength = 2 /\ bytes = <<0, 255>> /\ str = <<"h", "a">>

C26_DeterministicIdShape ==
    detLength >= 1 =>
        /\ Len(detId) = detLength
        /\ \A i \in 1..Len(detId) : detId[i] \in Alphanumerics
        /\ \A i \in 1..Len(detId) :
              detId[i] = replaceFiller(digestBase64(detKey))[i]

\* C27: for an empty input the call returns an awaitable that is already
\* resolved with the empty sequence: no factory is invoked and nothing is
\* awaited.
C27_EmptyInputResolvesAtOnce ==
    (items = <<>> /\ pc # "start") =>
        /\ pc = "done"
        /\ run.state = "fulfilled" /\ run.value = <<>>
        /\ results = <<>> /\ idx = 0 /\ invoked = <<>>
\* the call was made with an empty array
C27_Witness == items = <<>> /\ pc = "done" /\ run.state = "fulfilled"

\* C28: whenever the guarded promise has settled, no timer of that
\* timeoutPromise call is pending; the timer is cleared in the step in which
\* the settlement of the operation wins.
C28_NoTimerAfterSettle ==
    /\ [](outcome.state # "pending" => ~timeoutPending)
    /\ [][(job = "queued" /\ job' = "done" /\ ~hasFulfilled)
            => (timerCleared' /\ outcome'.state # "pending")]_vars
\* the operation settled first and its reaction cleared the pending timer
C28_Witness ==
    /\ opFirst /\ job = "done" /\ ~timerFired /\ timerCleared
    /\ outcome.state = "fulfilled"

\* C29: both handlers are registered before listen(port) is invoked, so an
\* event emitted synchronously inside listen() is observed and settles the
\* awaitable: resolve for 'listening', reject with the emitted error for
\* 'error'.
C29_SyncEventObserved ==
    syncEmitted =>
        /\ slOutcome = FirstEventOutcome
        /\ slSettleCalls = 1
        /\ registered = {}
\* listen() emitted 'error' before it returned and the awaitable is rejected
\* with that error
C29_Witness ==
    /\ syncEmitted /\ Len(events) = 1 /\ events[1].name = "error"
    /\ slOutcome.state = "rejected" /\ slOutcome.value = events[1].err

\* no execution has ended by throwing before it invoked its continuation
ContinuationsInvoked == \A k \in 1..started : threw[k] => cbCount[k] >= 1

\* C30: if the handle is never cancelled and every execution of the work
\* function invokes its continuation exactly once, then under fair timer
\* firing the work function is executed again and again (up to MaxExec
\* executions), and between the continuation of one execution and the start
\* of the next exactly one timer is set and fires.
C30_RepeatsForever ==
    /\ ([]isRunning /\ []ContinuationsInvoked) => <>(started = MaxExec)
    /\ [](isRunning => (timerSeq = SumSeq(cbCount) /\ Cardinality(timers) <= 1))
    /\ [][(StartStep /\ started >= 1)
            => (Cardinality(timers) = 1 /\ timers' = {}
                /\ cbCount[started] = 1)]_vars
\* MaxExec executions, each but the last after the one timer set by the
\* continuation of the execution before it; the handle was never cancelled
C30_Witness ==
    /\ isRunning /\ cbLimit = 1 /\ started = MaxExec
    /\ \A k \in 1..(MaxExec - 1) : cbCount[k] = 1 /\ ~threw[k]
    /\ timerSeq = MaxExec - 1 /\ timers = {}

\* every item is an operation already started by the caller
AllStarted == \A n \in Positions : items[n] = "promise"
Failed == {n \in Positions : op[n].state = "rejected"}
FirstFailed == CHOOSE n \in Failed : \A m \in Failed : n <= m

\* C31: when the items are already-started operations and more than one of
\* them fails, the run rejects with the error of the failing item that comes
\* first in input order, whichever failure happened first in time, and no
\* item after that one is awaited.
C31_FirstFailureInInputOrder ==
    (AllStarted /\ Cardinality(Failed) >= 2) =>
        /\ idx <= FirstFailed
        /\ run.state # "fulfilled"
        /\ pc = "done" => run.state = "rejected"
        /\ run.state = "rejected" =>
              /\ run.error = op[FirstFailed].value
              /\ idx = FirstFailed
\* the third item failed first in time, the second failed later with another
\* error, and the run rejected with the error of the second
C31_Witness ==
    /\ AllStarted /\ Len(items) = 3
    /\ settleOrder = <<3, 1, 2>>
    /\ op[1].state = "fulfilled" /\ op[2].state = "rejected" /\ op[3].state = "rejected"
    /\ op[2].value # op[3].value
    /\ run.state = "rejected" /\ run.error = op[2].value /\ idx = 2

\* C32: if listen(port) itself throws synchronously, the returned awaitable
\* rejects with the thrown error, and the 'error' and 'listening' handlers of
\* the call remain registered on the server until one of the two events
\* fires.
C32_ListenThrowKeepsHandlers ==
    /\ [][\A e \in SLErrors :
            ListenThrows(e)
                => /\ slOutcome' = [state |-> "rejected", value |-> e]
                   /\ registered' = {"onError", "onListening"}]_vars
    /\ [][(listenThrew /\ ~syncEmitted) => slOutcome' = slOutcome]_vars
    /\ []((listenThrew /\ ~syncEmitted) =>
            /\ slOutcome.state = "rejected" /\ slOutcome.value \in SLErrors
            /\ events = <<>> => registered = {"onError", "onListening"}
            /\ events # <<>> => registered = {})
\* listen threw, the awaitable is rejected and no event has fired: both
\* handlers are still on the server
C32_Witness ==
    /\ listenThrew /\ ~syncEmitted /\ events = <<>>
    /\ slOutcome.state = "rejected"
    /\ registered = {"onError", "onListening"}

====
